---- MODULE Spec2Model ----
(***************************************************************************)
(* Model of the Loader progress scheduler of the audio analyzer front end  *)
(* (src/frontend/src/components/AnalysisResult.jsx, lines 566-740).        *)
(*                                                                         *)
(* The second part models the size normaliser, the time estimator and the  *)
(* label formatter the Loader applies to its fileSizeBytes prop.           *)
(*                                                                         *)
(* The third part models AnalysisResult's segment selection (ResultSpec),  *)
(* UploadCard's access-code gate with App's uploads (CardSpec), and the    *)
(* Loader as App mounts it while an upload is in flight (AppSpec).         *)
(*                                                                         *)
(* Times are in milliseconds on a 500 ms grid.  Progress values are exact  *)
(* rationals <<numerator, denominator>> in lowest terms, so that the       *)
(* easing arithmetic is computed rather than assumed.                      *)
(***************************************************************************)
EXTENDS Integers, FiniteSets, Sequences, TLC

(* ------------------------------ bounds -------------------------------- *)

\* number of 500 ms steps the clock may advance
MaxSteps == 6

\* number of effect executions (runs) in one behaviour
MaxRuns == 3

\* number of requestAnimationFrame handles handed out in one behaviour
MaxHandle == 5

\* how many grid steps a frame timestamp may lag behind performance.now()
MaxSkewSteps == 1

MaxNowMs == MaxSteps * 500

\* the estimator is applied to normalised sizes below this many MiB
MaxEstMb == 4096

\* the largest number of hours a label is compared against
MaxLabelHours == 6

\* frame timestamps may lag performance.now() by these amounts
Skews == { k * 500 : k \in 0..MaxSkewSteps }

\* estimates the Loader is run with: the default and the non-tiny floor
EstSet == {2500, 5000}

(* --------------------------- exact rationals --------------------------- *)

Abs(n) == IF n < 0 THEN -n ELSE n

RECURSIVE GCD(_, _)
GCD(a, b) == IF b = 0 THEN a ELSE GCD(b, a % b)

\* n/d in lowest terms, d > 0
Norm(n, d) ==
  LET g == GCD(Abs(n), d)
  IN  IF g = 0 THEN <<0, 1>> ELSE <<n \div g, d \div g>>

RMul(a, b) ==
  LET x == Norm(a[1], b[2])
      y == Norm(b[1], a[2])
  IN  Norm(x[1] * y[1], x[2] * y[2])

RAdd(a, b) ==
  LET g == GCD(a[2], b[2])
  IN  Norm(a[1] * (b[2] \div g) + b[1] * (a[2] \div g), (a[2] \div g) * b[2])

RSub(a, b) == RAdd(a, <<-b[1], b[2]>>)

\* a <= b and a < b: whole parts first, then the fractional parts, so that
\* the cross products stay below the product of the denominators
RLe(a, b) ==
  LET qa == a[1] \div a[2]
      qb == b[1] \div b[2]
  IN  IF qa # qb THEN qa < qb
      ELSE (a[1] % a[2]) * b[2] <= (b[1] % b[2]) * a[2]

RLt(a, b) ==
  LET qa == a[1] \div a[2]
      qb == b[1] \div b[2]
  IN  IF qa # qb THEN qa < qb
      ELSE (a[1] % a[2]) * b[2] < (b[1] % b[2]) * a[2]

Zero == <<0, 1>>

One == <<1, 1>>

\* the literal 0.95
P95 == <<19, 20>>

\* the literal 0.6
P60 == <<3, 5>>

(* ------------------------- pure helper functions ----------------------- *)

\* Math.min / Math.max on rationals
RMin(a, b) == IF RLe(a, b) THEN a ELSE b

RMax(a, b) == IF RLe(a, b) THEN b ELSE a

\* clamp(n, min, max) = Math.min(max, Math.max(min, n))
clampNoFloor(n, min, max) == RMin(max, n)

clamp(n, min, max) == RMin(max, RMax(min, n))

\* t = clamp(elapsed / estMs, 0, 1)
TickT(elapsed, est) == clamp(Norm(elapsed, est), Zero, One)

\* Math.pow(x, 3) and Math.pow(x, 2)
Cube(x) == RMul(x, RMul(x, x))

Square(x) == RMul(x, x)

\* the two-phase easing of tick
easedFalling(t) ==
  IF RLt(t, P60)
    THEN RMul(<<7, 10>>, RSub(One, Cube(RSub(One, RMul(t, <<5, 3>>)))))
    ELSE RSub(<<7, 10>>,
              RMul(<<1, 4>>,
                   RSub(One, Square(RSub(One, RMul(RSub(t, P60), <<5, 2>>))))))

eased(t) ==
  IF RLt(t, P60)
    THEN RMul(<<7, 10>>, RSub(One, Cube(RSub(One, RMul(t, <<5, 3>>)))))
    ELSE RAdd(<<7, 10>>,
              RMul(<<1, 4>>,
                   RSub(One, Square(RSub(One, RMul(RSub(t, P60), <<5, 2>>))))))

\* target = done ? 1 : 0.95
target(d) == IF d THEN One ELSE P95

\* which branch of the final if/else-if/else of tick is taken
TickBranch(d, t) ==
  IF ~d /\ RLt(t, One) THEN "easing"
  ELSE IF ~d THEN "stalled"
  ELSE "completed"

\* whether tick requests another animation frame: if (!done && t < 1)
ReschedulesWhileNotDone(d, t) == ~d

ReschedulesAlways(d, t) == TRUE

Reschedules(d, t) == ~d /\ RLt(t, One)

\* the value of the progress state after all setProgress calls of one tick
TickProgressStallAtOne(d, t) ==
  IF ~d /\ RLt(t, One) THEN RMul(eased(t), target(d))
  ELSE IF ~d THEN One
  ELSE One

TickProgressNoStallClamp(d, t) ==
  IF ~d /\ RLt(t, One) THEN RMul(eased(t), target(d))
  ELSE IF ~d THEN RMul(eased(t), target(d))
  ELSE One

TickProgressNoSnap(d, t) ==
  IF ~d /\ RLt(t, One) THEN RMul(eased(t), target(d))
  ELSE IF ~d THEN P95
  ELSE RMul(eased(t), target(d))

TickProgress(d, t) ==
  IF ~d /\ RLt(t, One) THEN RMul(eased(t), target(d))
  ELSE IF ~d THEN P95
  ELSE One

\* every t a tick can compute on the time grid
TValues == { TickT(k * 500, e) : k \in (0 - MaxSteps)..MaxSteps, e \in EstSet }

\* TickProgress, evaluated once for every done and every t of the grid
TickProgressAt == [d \in BOOLEAN, t \in TValues |-> TickProgress(d, t)]

(* ----------------- size normaliser, estimator, formatter --------------- *)

\* JavaScript values handed to the Loader as fileSizeBytes
Num(n) == [t |-> "number", v |-> n]

NonNumber(k) == [t |-> k, v |-> 0]

\* Number.isFinite(size): true only for a number that is not NaN or +-Infinity
NumberIsFinite(x) == x.t = "number"

\* byte counts beyond 32 bits are kept as <<whole MiB, remaining bytes>>
Wide(n) == <<n \div 1048576, n % 1048576>>

\* size * 1024
WideTimes1024(n) == <<n \div 1024, (n % 1024) * 1024>>

\* the null returned by normalizeBytes
Null == <<>>

normalizeBytesZeroPasses(x) ==
  IF ~NumberIsFinite(x) \/ x.v < 0 THEN Null
  ELSE IF x.v < 50000000 /\ x.v >= 1000 /\ (x.v % 1024 = 0 \/ x.v > 10000)
    THEN WideTimes1024(x.v)
  ELSE Wide(x.v)

normalizeBytesFrom10000(x) ==
  IF ~NumberIsFinite(x) \/ x.v <= 0 THEN Null
  ELSE IF x.v < 50000000 /\ x.v >= 1000 /\ (x.v % 1024 = 0 \/ x.v >= 10000)
    THEN WideTimes1024(x.v)
  ELSE Wide(x.v)

normalizeBytesMultiplesOnly(x) ==
  IF ~NumberIsFinite(x) \/ x.v <= 0 THEN Null
  ELSE IF x.v < 50000000 /\ x.v >= 1000 /\ x.v % 1024 = 0
    THEN WideTimes1024(x.v)
  ELSE Wide(x.v)

normalizeBytesNoKb(x) ==
  IF ~NumberIsFinite(x) \/ x.v <= 0 THEN Null ELSE Wide(x.v)

normalizeBytes(x) ==
  IF ~NumberIsFinite(x) \/ x.v <= 0 THEN Null
  ELSE IF x.v < 50000000 /\ x.v >= 1000 /\ (x.v % 1024 = 0 \/ x.v > 10000)
    THEN WideTimes1024(x.v)
  ELSE Wide(x.v)

MathRoundDown(r) == r[1] \div r[2]

\* Math.round on a rational: the nearest integer, halves rounded up
MathRound(r) == (2 * r[1] + r[2]) \div (2 * r[2])

IMax(a, b) == IF a >= b THEN a ELSE b

formatEtaMinutesThrough60(ms) ==
  LET sec == IMax(1, MathRound(RMul(ms, <<1, 1000>>)))
      min == MathRound(Norm(sec, 60))
      hrs == MathRound(Norm(min, 60))
  IN  IF sec < 60 THEN "~" \o ToString(sec) \o "s"
      ELSE IF min <= 60 THEN "~" \o ToString(min) \o "m"
      ELSE "~" \o ToString(hrs) \o "h"

formatEtaNoFloor(ms) ==
  LET sec == MathRound(RMul(ms, <<1, 1000>>))
      min == MathRound(Norm(sec, 60))
      hrs == MathRound(Norm(min, 60))
  IN  IF sec < 60 THEN "~" \o ToString(sec) \o "s"
      ELSE IF min < 60 THEN "~" \o ToString(min) \o "m"
      ELSE "~" \o ToString(hrs) \o "h"

\* formatEta(ms), ms a rational
formatEta(ms) ==
  LET sec == IMax(1, MathRound(RMul(ms, <<1, 1000>>)))
      min == MathRound(Norm(sec, 60))
      hrs == MathRound(Norm(min, 60))
  IN  IF sec < 60 THEN "~" \o ToString(sec) \o "s"
      ELSE IF min < 60 THEN "~" \o ToString(min) \o "m"
      ELSE "~" \o ToString(hrs) \o "h"

(* --------------------------- Math.pow(mb, p) --------------------------- *)

\* resolution of the modelled Math.pow: results are cut to two decimals
PowScale == 10 * 10

\* Natural numbers of any size: base-10000 digits, least significant first,
\* no leading zero digit; <<>> is 0.  The operators split their digit
\* ranges in halves, so that the nesting of an evaluation grows with the
\* logarithm of the number of digits.
BigBase == 100 * 100

BigDigit(a, i) == IF i <= Len(a) THEN a[i] ELSE 0

\* a without its leading zero digits
BigTrim(a) ==
  LET nz == { i \in 1..Len(a) : a[i] # 0 }
  IN  IF nz = {} THEN <<>>
      ELSE SubSeq(a, 1, CHOOSE i \in nz : \A j \in nz : j <= i)

BigFromInt(n) ==
  BigTrim(<<n % BigBase, (n \div BigBase) % BigBase, n \div (BigBase * BigBase)>>)

\* digits lo..hi of a + b + carry, and the carry out of digit hi
RECURSIVE BigAddRange(_, _, _, _, _)
BigAddRange(a, b, lo, hi, carry) ==
  IF lo = hi
    THEN LET v == BigDigit(a, lo) + BigDigit(b, lo) + carry
         IN  <<<<v % BigBase>>, v \div BigBase>>
    ELSE LET mid  == (lo + hi) \div 2
             low  == BigAddRange(a, b, lo, mid, carry)
             high == BigAddRange(a, b, mid + 1, hi, low[2])
         IN  <<low[1] \o high[1], high[2]>>

BigAdd(a, b) ==
  IF a = <<>> THEN b
  ELSE IF b = <<>> THEN a
  ELSE LET r == BigAddRange(a, b, 1, IMax(Len(a), Len(b)), 0)
       IN  IF r[2] = 0 THEN r[1] ELSE Append(r[1], r[2])

\* digits lo..hi of a * m + carry for one digit m, and the carry out
RECURSIVE BigMulDigitRange(_, _, _, _, _)
BigMulDigitRange(a, m, lo, hi, carry) ==
  IF lo = hi
    THEN LET v == BigDigit(a, lo) * m + carry
         IN  <<<<v % BigBase>>, v \div BigBase>>
    ELSE LET mid  == (lo + hi) \div 2
             low  == BigMulDigitRange(a, m, lo, mid, carry)
             high == BigMulDigitRange(a, m, mid + 1, hi, low[2])
         IN  <<low[1] \o high[1], high[2]>>

BigMulDigit(a, m) ==
  IF a = <<>> \/ m = 0 THEN <<>>
  ELSE LET r == BigMulDigitRange(a, m, 1, Len(a), 0)
       IN  IF r[2] = 0 THEN r[1] ELSE Append(r[1], r[2])

\* a * BigBase^k
BigShift(a, k) == IF a = <<>> THEN a ELSE [i \in 1..k |-> 0] \o a

\* a times the number whose digits are b[lo..hi]
RECURSIVE BigMulRange(_, _, _, _)
BigMulRange(a, b, lo, hi) ==
  IF lo = hi THEN BigMulDigit(a, b[lo])
  ELSE LET mid == (lo + hi) \div 2
       IN  BigAdd(BigMulRange(a, b, lo, mid),
                  BigShift(BigMulRange(a, b, mid + 1, hi), mid + 1 - lo))

BigMul(a, b) ==
  IF a = <<>> \/ b = <<>> THEN <<>> ELSE BigMulRange(a, b, 1, Len(b))

\* n^k by repeated squaring
RECURSIVE BigPow(_, _)
BigPow(n, k) ==
  IF k = 0 THEN <<1>>
  ELSE IF k = 1 THEN BigFromInt(n)
  ELSE LET h  == BigPow(n, k \div 2)
           hh == BigMul(h, h)
       IN  IF k % 2 = 0 THEN hh ELSE BigMul(hh, BigFromInt(n))

BigLe(a, b) ==
  IF Len(a) # Len(b) THEN Len(a) < Len(b)
  ELSE LET df == { i \in 1..Len(a) : a[i] # b[i] }
       IN  \/ df = {}
           \/ LET top == CHOOSE i \in df : \A j \in df : j <= i
              IN  a[top] < b[top]

\* (y / PowScale)^den <= (n / d)^num, given dn = d^num and
\* rhs = PowScale^den * n^num
PowLe(y, den, dn, rhs) == BigLe(BigMul(BigPow(y, den), dn), rhs)

\* the largest y in lo..(lo + 8 * step - 1) with PowLe(y, ...), given
\* PowLe(lo, ...): each stage narrows the search by a factor of 8
RECURSIVE PowSearch(_, _, _, _, _)
PowSearch(lo, step, den, dn, rhs) ==
  IF step = 0 THEN lo
  ELSE LET k == CHOOSE j \in 0..7 :
                  /\ PowLe(lo + j * step, den, dn, rhs)
                  /\ (j = 7 \/ ~PowLe(lo + (j + 1) * step, den, dn, rhs))
       IN  IF k \in 0..7
             THEN PowSearch(lo + k * step, step \div 8, den, dn, rhs)
             ELSE lo

\* Math.pow(x, num/den) for a rational x >= 0, cut to a multiple of
\* 1/PowScale: the largest y/PowScale with (y/PowScale)^den <= x^num
MathPow(x, num, den) ==
  LET rhs == BigMul(BigPow(x[1], num), BigPow(PowScale, den))
      dn  == BigPow(x[2], num)
  IN  Norm(PowSearch(0, 134217728, den, dn, rhs), PowScale)

(* ------------------------- estimateMsFromBytes ------------------------- *)

\* !bytes
Falsy(b) == b = Null \/ b = <<0, 0>>

\* mb = bytes / (1024 * 1024)
MbOf(b) ==
  LET g == GCD(b[2], 1048576)
  IN  <<b[1] * (1048576 \div g) + b[2] \div g, 1048576 \div g>>

\* the piecewise seconds model
SecondsOf(mb) ==
  IF RLe(mb, One) THEN RAdd(One, RMul(<<3, 1>>, mb))
  ELSE IF RLe(mb, <<30, 1>>) THEN RMul(<<26, 5>>, MathPow(mb, 27, 20))
  ELSE RMul(<<19, 10>>, MathPow(mb, 31, 20))

\* minMs = mb < 0.3 ? 300 : 5_000
MinMsOf(mb) == IF RLt(mb, <<3, 10>>) THEN <<300, 1>> ELSE <<5000, 1>>

estimateNoCap(x) ==
  LET bytes == normalizeBytes(x)
      mb    == MbOf(bytes)
  IN  IF Falsy(bytes) THEN <<2500, 1>>
      ELSE RMax(MinMsOf(mb),
                RAdd(RMul(SecondsOf(mb), <<1000, 1>>), <<1200, 1>>))

estimateNoDefault(x) ==
  LET bytes == IF NumberIsFinite(x) THEN Wide(x.v) ELSE Wide(0)
      mb    == MbOf(bytes)
  IN  clamp(RAdd(RMul(SecondsOf(mb), <<1000, 1>>), <<1200, 1>>),
            MinMsOf(mb), <<6 * 60 * 60 * 1000, 1>>)

estimateMsFromBytes(x) ==
  LET bytes == normalizeBytes(x)
      mb    == MbOf(bytes)
  IN  IF Falsy(bytes) THEN <<2500, 1>>
      ELSE clamp(RAdd(RMul(SecondsOf(mb), <<1000, 1>>), <<1200, 1>>),
                 MinMsOf(mb), <<6 * 60 * 60 * 1000, 1>>)

\* values of the fileSizeBytes prop the functions are applied to
RawSizes ==
  { NonNumber(k) : k \in {"NaN", "Infinity", "-Infinity", "null", "undefined", "string"} }
    \cup { Num(n) : n \in {-5, -1, 0, 1, 500, 999, 1000, 1023, 1024, 2048, 5000,
                           10000, 10001, 10240, 27000, 102400, 3145728,
                           49999999, 50000000, 1073741824} }

\* the sizes whose estimate stays within the modelled arithmetic
EstSizes ==
  { x \in RawSizes : normalizeBytes(x) = Null \/ normalizeBytes(x)[1] < MaxEstMb }

\* arguments formatEta is applied to directly
FmtSet ==
  { <<n, 1>> : n \in {0, 1, 499, 500, 1499, 1500, 45000, 59499, 59500, 90000,
                      3569999, 3570000, 3600000, 5400000, 21600000} }

\* estimateMsFromBytes over EstSizes, computed once
EstimateAt == [x \in EstSizes |-> estimateMsFromBytes(x)]

(* ------------------------------- state --------------------------------- *)

VARIABLES
  mounted,      \* the Loader is mounted
  estMs,        \* the memoised estimate of the current render
  done,         \* the done prop of the current render
  progress,     \* the progress state cell
  startRef,     \* startRef.current (0 stands for null)
  rafRef,       \* rafRef.current (0 stands for null)
  rafQueue,     \* animation-frame callbacks requested and not yet run or cancelled
  nextHandle,   \* the next handle requestAnimationFrame returns
  perfNow,      \* performance.now()
  lastFrameTs,  \* timestamp of the latest animation frame delivered
  runId,        \* number of effect executions so far
  lastTick,     \* branch taken by the latest tick of the current run
  lastT,        \* t computed by the latest tick of the current run
  prevTick,     \* lastTick of the run the current run superseded
  fileSizeBytes,\* the fileSizeBytes prop
  msArg,        \* the argument of the latest formatEta call
  bytesOut,     \* result of normalizeBytes(fileSizeBytes)
  estimated,    \* result of estimateMsFromBytes(fileSizeBytes)
  etaLabel,     \* result of formatEta(msArg)
  called,       \* the functions applied so far
  isOpen,       \* UploadCard: the access-code dialog is open
  code,         \* UploadCard: the text of the code field
  unlocked,     \* UploadCard: the card is unlocked
  isDragging,   \* UploadCard: a drag is over the card
  pickerOpen,   \* the browser's file chooser is showing
  timers,       \* pending setTimeout(openPicker, 50) callbacks
  loading,      \* App: loading
  result,       \* App: result (Null, or <<"data", request>>)
  error,        \* App: error (Null, or <<message, request>>)
  accessCode,   \* App: accessCode
  requests,     \* analyzeAudio calls awaiting their response
  nextReq,      \* number the next analyzeAudio call gets
  lastStarted,  \* number of the most recently started upload (0: none)
  lastOutcome,  \* how the latest settled request ended
  overlapped,   \* the latest upload was started while another was in flight
  segmentsRaw,  \* AnalysisResult: result.segments, as their speaker ids
  speakerFilter,\* AnalysisResult: speakerFilter
  activeIdx,    \* AnalysisResult: activeIdx
  memoLen       \* AnalysisResult: segments.length at the keep-valid memo's latest run

loaderVars == <<mounted, estMs, done, progress, startRef, rafRef, rafQueue,
                nextHandle, perfNow, lastFrameTs, runId, lastTick, lastT, prevTick>>

sizeVars == <<fileSizeBytes, msArg, bytesOut, estimated, etaLabel, called>>

cardVars == <<isOpen, code, unlocked, isDragging, pickerOpen, timers>>

appVars == <<loading, result, error, accessCode, requests, nextReq,
             lastStarted, lastOutcome, overlapped>>

resultVars == <<segmentsRaw, speakerFilter, activeIdx, memoLen>>

uiVars == <<isOpen, code, unlocked, isDragging, pickerOpen, timers,
            loading, result, error, accessCode, requests, nextReq,
            lastStarted, lastOutcome, overlapped,
            segmentsRaw, speakerFilter, activeIdx, memoLen>>

vars == <<mounted, estMs, done, progress, startRef, rafRef, rafQueue,
          nextHandle, perfNow, lastFrameTs, runId, lastTick, lastT, prevTick,
          fileSizeBytes, msArg, bytesOut, estimated, etaLabel, called,
          isOpen, code, unlocked, isDragging, pickerOpen, timers,
          loading, result, error, accessCode, requests, nextReq,
          lastStarted, lastOutcome, overlapped,
          segmentsRaw, speakerFilter, activeIdx, memoLen>>

Branches == {"none", "easing", "stalled", "completed"}

\* UploadCard's state after construction.
CardInitial ==
  /\ isOpen = FALSE
  /\ code = <<>>
  /\ unlocked = FALSE
  /\ isDragging = FALSE
  /\ pickerOpen = FALSE
  /\ timers = 0

\* App's state after construction; no upload has been started.
AppInitial ==
  /\ loading = FALSE
  /\ result = Null
  /\ error = Null
  /\ accessCode = <<>>
  /\ requests = {}
  /\ nextReq = 1
  /\ lastStarted = 0
  /\ lastOutcome = "none"
  /\ overlapped = FALSE

\* AnalysisResult's state after construction, for a result without segments.
ResultInitial ==
  /\ segmentsRaw = <<>>
  /\ speakerFilter = NonNumber("all")
  /\ activeIdx = 0
  /\ memoLen = 0

Init ==
  /\ mounted = FALSE
  /\ estMs \in EstSet
  /\ done = FALSE
  /\ progress = Zero
  /\ startRef = 0
  /\ rafRef = 0
  /\ rafQueue = {}
  /\ nextHandle = 1
  /\ perfNow = 0
  /\ lastFrameTs = 0
  /\ runId = 0
  /\ lastTick = "none"
  /\ lastT = Zero
  /\ prevTick = "none"
  /\ fileSizeBytes = NonNumber("undefined")
  /\ msArg = Zero
  /\ bytesOut = Null
  /\ estimated = Zero
  /\ etaLabel = ""
  /\ called = {}
  /\ CardInitial
  /\ AppInitial
  /\ ResultInitial

(* --------------------------- host operations --------------------------- *)

\* cancelAnimationFrame(id)
cancelNothing(q, id) == q

cancelAnimationFrame(q, id) == { cb \in q : cb.id # id }

\* the effect's cleanup: if (rafRef.current) cancelAnimationFrame(rafRef.current)
CleanupSkipped(q, ref) == q

Cleanup(q, ref) == IF ref # 0 THEN cancelAnimationFrame(q, ref) ELSE q

\* the callback the effect (or tick itself) hands to requestAnimationFrame:
\* the tick closure with the estMs and done of the render that created it
Callback(id, e, d, r) == [id |-> id, estMs |-> e, done |-> d, run |-> r]

\* dependency comparison of useEffect(..., [estMs, done])
DepsChangedEstOnly(e, d) == e # estMs

DepsChanged(e, d) == e # estMs \/ d # done

\* startRef.current = performance.now()
EffectStartKept(old, now) == IF old = 0 THEN now ELSE old

EffectStart(old, now) == now

\* setProgress(0) at the start of the effect
EffectProgressKept(old) == old

EffectProgress(old) == Zero

(* ------------------------------ actions -------------------------------- *)

\* body of the effect, run after q has been cleaned up; oldStart and
\* oldProgress are the instance's startRef.current and progress before it
RunEffect(q, e, d, oldStart, oldProgress, prev) ==
  /\ runId < MaxRuns
  /\ nextHandle <= MaxHandle
  /\ startRef' = EffectStart(oldStart, perfNow)
  /\ progress' = EffectProgress(oldProgress)
  /\ rafRef' = nextHandle
  /\ rafQueue' = q \cup {Callback(nextHandle, e, d, runId + 1)}
  /\ nextHandle' = nextHandle + 1
  /\ runId' = runId + 1
  /\ prevTick' = prev
  /\ lastTick' = "none"
  /\ lastT' = Zero

\* first render of a new Loader instance (useState(0), useRef(null)) and
\* the first execution of its effect
Mount ==
  /\ ~mounted
  /\ \E e \in EstSet, d \in BOOLEAN :
       /\ mounted' = TRUE
       /\ estMs' = e
       /\ done' = d
       /\ RunEffect(rafQueue, e, d, 0, Zero, "none")
  /\ UNCHANGED <<perfNow, lastFrameTs>>
  /\ UNCHANGED sizeVars
  /\ UNCHANGED uiVars

\* a render with props (e, d); the effect re-runs when a dependency changed
Rerender ==
  /\ mounted
  /\ \E e \in EstSet, d \in BOOLEAN :
       /\ estMs' = e
       /\ done' = d
       /\ IF DepsChanged(e, d)
            THEN RunEffect(Cleanup(rafQueue, rafRef), e, d, startRef, progress, lastTick)
            ELSE UNCHANGED <<startRef, progress, rafRef, rafQueue, nextHandle,
                             runId, prevTick, lastTick, lastT>>
  /\ UNCHANGED <<mounted, perfNow, lastFrameTs>>
  /\ UNCHANGED sizeVars
  /\ UNCHANGED uiVars

\* the Loader is removed: the effect's cleanup runs
Unmount ==
  /\ mounted
  /\ mounted' = FALSE
  /\ rafQueue' = Cleanup(rafQueue, rafRef)
  /\ UNCHANGED <<estMs, done, progress, startRef, rafRef, nextHandle, perfNow,
                 lastFrameTs, runId, lastTick, lastT, prevTick>>
  /\ UNCHANGED sizeVars
  /\ UNCHANGED uiVars

\* the host delivers an animation frame and runs a pending tick callback
Tick ==
  \E cb \in rafQueue, s \in Skews :
    LET now == perfNow - s
        t   == TickT(now - startRef, cb.estMs)
        br  == TickBranch(cb.done, t)
    IN  /\ now >= lastFrameTs
        /\ lastFrameTs' = now
        /\ progress' = TickProgressAt[cb.done, t]
        /\ lastTick' = br
        /\ lastT' = t
        /\ IF Reschedules(cb.done, t)
             THEN /\ nextHandle <= MaxHandle
                  /\ rafRef' = nextHandle
                  /\ rafQueue' = (rafQueue \ {cb})
                                   \cup {Callback(nextHandle, cb.estMs, cb.done, cb.run)}
                  /\ nextHandle' = nextHandle + 1
             ELSE /\ rafQueue' = rafQueue \ {cb}
                  /\ UNCHANGED <<rafRef, nextHandle>>
        /\ UNCHANGED <<mounted, estMs, done, startRef, perfNow, runId, prevTick>>
        /\ UNCHANGED sizeVars
  /\ UNCHANGED uiVars

\* time passes
Advance ==
  /\ perfNow + 500 <= MaxNowMs
  /\ perfNow' = perfNow + 500
  /\ UNCHANGED <<mounted, estMs, done, progress, startRef, rafRef, rafQueue,
                 nextHandle, lastFrameTs, runId, lastTick, lastT, prevTick>>
  /\ UNCHANGED sizeVars
  /\ UNCHANGED uiVars

Next == Mount \/ Rerender \/ Unmount \/ Tick \/ Advance

Spec == Init /\ [][Next]_vars

\* the host keeps delivering animation frames to pending callbacks
FairSpec == Spec /\ WF_vars(Tick)

(* ------------- the size functions applied to chosen inputs ------------- *)

\* a size prop and a duration are chosen; nothing has been computed yet
SizeInit ==
  /\ mounted = FALSE
  /\ estMs = 2500
  /\ done = FALSE
  /\ progress = Zero
  /\ startRef = 0
  /\ rafRef = 0
  /\ rafQueue = {}
  /\ nextHandle = 1
  /\ perfNow = 0
  /\ lastFrameTs = 0
  /\ runId = 0
  /\ lastTick = "none"
  /\ lastT = Zero
  /\ prevTick = "none"
  /\ fileSizeBytes \in RawSizes
  /\ msArg \in FmtSet
  /\ bytesOut = Null
  /\ estimated = Zero
  /\ etaLabel = ""
  /\ called = {}
  /\ CardInitial
  /\ AppInitial
  /\ ResultInitial

\* const bytes = normalizeBytes(fileSizeBytes)
CallNormalizeBytes ==
  /\ bytesOut' = normalizeBytes(fileSizeBytes)
  /\ called' = called \cup {"normalizeBytes"}
  /\ UNCHANGED <<fileSizeBytes, msArg, estimated, etaLabel>>
  /\ UNCHANGED loaderVars
  /\ UNCHANGED uiVars

\* const estMs = estimateMsFromBytes(fileSizeBytes)
CallEstimateMsFromBytes ==
  /\ fileSizeBytes \in EstSizes
  /\ estimated' = EstimateAt[fileSizeBytes]
  /\ called' = called \cup {"estimateMsFromBytes"}
  /\ UNCHANGED <<fileSizeBytes, msArg, bytesOut, etaLabel>>
  /\ UNCHANGED loaderVars
  /\ UNCHANGED uiVars

\* formatEta(ms) on the chosen duration
CallFormatEta ==
  /\ "etaLabel" \notin called
  /\ etaLabel' = formatEta(msArg)
  /\ called' = called \cup {"formatEta"}
  /\ UNCHANGED <<fileSizeBytes, msArg, bytesOut, estimated>>
  /\ UNCHANGED loaderVars
  /\ UNCHANGED uiVars

\* const etaLabel = formatEta(estMs), estMs the estimate computed before
CallFormatEtaOfEstimate ==
  /\ "estimateMsFromBytes" \in called
  /\ msArg' = estimated
  /\ etaLabel' = formatEta(estimated)
  /\ called' = called \cup {"formatEta", "etaLabel"}
  /\ UNCHANGED <<fileSizeBytes, bytesOut, estimated>>
  /\ UNCHANGED loaderVars
  /\ UNCHANGED uiVars

SizeNext ==
  CallNormalizeBytes \/ CallEstimateMsFromBytes \/ CallFormatEta
    \/ CallFormatEtaOfEstimate

SizeSpec == SizeInit /\ [][SizeNext]_vars

(* --------------------------- AnalysisResult ---------------------------- *)

\* number of segments of a result
MaxSegs == 3

\* speaker_id values of the segments and of the speaker chips
SpeakerIds == {0, 1}

\* result.segments of the results the component is given
ResultSets == UNION { [1..n -> SpeakerIds] : n \in 0..MaxSegs }

\* values setSpeakerFilter is called with: "all", or a profile's speaker_id
Filters == {NonNumber("all"), NonNumber("undefined")} \cup { Num(k) : k \in 0..2 }

\* const segments = useMemo(...): the segments the list shows
segments(raw, filter) ==
  IF filter.t = "all" THEN raw
  ELSE IF ~NumberIsFinite(filter) THEN raw
  ELSE LET Matches(speaker_id) == speaker_id = filter.v
       IN  SelectSeq(raw, Matches)

\* the keep-valid memo without its reset
keepValidNoReset(idx, len, memo) == idx

\* useMemo(() => { if (activeIdx >= segments.length) setActiveIdx(0) },
\*         [segments.length]): activeIdx after a render that sees len segments
keepValid(idx, len, memo) ==
  IF len # memo /\ idx >= len THEN 0 ELSE idx

\* a render of AnalysisResult with the given props and state
RenderResult(raw, filter, idx) ==
  LET len == Len(segments(raw, filter))
  IN  /\ activeIdx' = keepValid(idx, len, memoLen)
      /\ memoLen' = len

\* the state of an unmounted Loader
LoaderUnmounted ==
  /\ mounted = FALSE
  /\ estMs = 2500
  /\ done = FALSE
  /\ progress = Zero
  /\ startRef = 0
  /\ rafRef = 0
  /\ rafQueue = {}
  /\ nextHandle = 1
  /\ perfNow = 0
  /\ lastFrameTs = 0
  /\ runId = 0
  /\ lastTick = "none"
  /\ lastT = Zero
  /\ prevTick = "none"

\* no size function has been applied
SizeIdle ==
  /\ fileSizeBytes = NonNumber("undefined")
  /\ msArg = Zero
  /\ bytesOut = Null
  /\ estimated = Zero
  /\ etaLabel = ""
  /\ called = {}

\* AnalysisResult after its first render of some result
ResultInit ==
  /\ LoaderUnmounted
  /\ SizeIdle
  /\ CardInitial
  /\ AppInitial
  /\ segmentsRaw \in ResultSets
  /\ speakerFilter = NonNumber("all")
  /\ activeIdx = 0
  /\ memoLen = Len(segmentsRaw)

\* onClick={() => setActiveIdx(i)} of the i-th segment button (1-based here)
SelectSegment(i) ==
  /\ i \in 1..Len(segments(segmentsRaw, speakerFilter))
  /\ RenderResult(segmentsRaw, speakerFilter, i - 1)
  /\ UNCHANGED <<segmentsRaw, speakerFilter>>
  /\ UNCHANGED <<loaderVars, sizeVars, cardVars, appVars>>

\* onClick of a filter chip: setSpeakerFilter("all" | sp.speaker_id)
SetSpeakerFilter(f) ==
  /\ speakerFilter' = f
  /\ RenderResult(segmentsRaw, f, activeIdx)
  /\ UNCHANGED segmentsRaw
  /\ UNCHANGED <<loaderVars, sizeVars, cardVars, appVars>>

\* the parent renders the component with another result
ChangeResult(r) ==
  /\ segmentsRaw' = r
  /\ RenderResult(r, speakerFilter, activeIdx)
  /\ UNCHANGED speakerFilter
  /\ UNCHANGED <<loaderVars, sizeVars, cardVars, appVars>>

ResultNext ==
  \/ \E i \in 1..MaxSegs : SelectSegment(i)
  \/ \E f \in Filters : SetSpeakerFilter(f)
  \/ \E r \in ResultSets : ChangeResult(r)

ResultSpec == ResultInit /\ [][ResultNext]_vars

(* ------------------------- UploadCard and App -------------------------- *)

\* length of the text a change event of the code field carries
MaxRawLen == 6

\* number of openPicker timers pending at once
MaxTimers == 1

\* number of uploads in one behaviour
MaxReq == 3

Digits == {"0", "1", "2", "3", "4", "5", "6", "7", "8", "9"}

\* characters the code field receives
Alphabet == {"1", "x"}

\* e.target.value of the code field's change events
RawInputs == UNION { [1..n -> Alphabet] : n \in 0..MaxRawLen }

IsDigit(c) == c \in Digits

\* the change handler without its slice(0, 5)
SanitizeNoSlice(raw) == SelectSeq(raw, IsDigit)

\* e.target.value.replace(/\D/g, "").slice(0, 5)
Sanitize(raw) ==
  LET digits == SelectSeq(raw, IsDigit)
  IN  IF Len(digits) <= 5 THEN digits ELSE SubSeq(digits, 1, 5)

\* /^\d{5}$/.test(code)
isValidFormat(c) == Len(c) = 5 /\ \A i \in 1..5 : IsDigit(c[i])

\* the error bodies a failed request carries: none, an empty one, a message
ServerErrors == {"undefined", "", "Invalid access code"}

\* the catch block's message without its fallback
ErrorMessageNoFallback(e) == IF e = "undefined" THEN "" ELSE e

\* err?.response?.data?.error || "Audio analysis failed"
ErrorMessage(e) ==
  IF e = "undefined" \/ e = "" THEN "Audio analysis failed" ELSE e

\* the done prop when the parent passes none, were it set
LoaderDoneSet == TRUE

\* Loader({ done = false, fileSizeBytes }) rendered as <Loader />
LoaderDone == FALSE

\* useMemo(() => estimateMsFromBytes(fileSizeBytes)) with no fileSizeBytes
LoaderEstMs == EstimateAt[NonNumber("undefined")][1]

\* {loading && <Loader />} after a render of App in which loading is l
RenderLoader(l) ==
  IF l /\ ~mounted
    THEN /\ mounted' = TRUE
         /\ estMs' = LoaderEstMs
         /\ done' = LoaderDone
         /\ RunEffect(rafQueue, LoaderEstMs, LoaderDone, 0, Zero, "none")
         /\ UNCHANGED <<perfNow, lastFrameTs>>
    ELSE IF ~l /\ mounted
    THEN /\ mounted' = FALSE
         /\ rafQueue' = Cleanup(rafQueue, rafRef)
         /\ UNCHANGED <<estMs, done, progress, startRef, rafRef, nextHandle,
                        perfNow, lastFrameTs, runId, lastTick, lastT, prevTick>>
    ELSE UNCHANGED loaderVars

\* App.handleFile(file) up to its await: the request leaves with the
\* accessCode of the render the handler belongs to
AppHandleFile ==
  /\ nextReq <= MaxReq
  /\ loading' = TRUE
  /\ error' = Null
  /\ result' = Null
  /\ requests' = requests \cup {[id |-> nextReq, code |-> accessCode]}
  /\ nextReq' = nextReq + 1
  /\ lastStarted' = nextReq
  /\ overlapped' = (requests # {})
  /\ RenderLoader(TRUE)
  /\ UNCHANGED <<accessCode, lastOutcome>>

\* inputRef.current?.click(): the chooser opens, and the click bubbles to
\* the card's onClick, whose nested click() on the same input is ignored
OpenPicker ==
  /\ pickerOpen' = TRUE
  /\ isOpen' = IF unlocked THEN isOpen ELSE TRUE

\* onClick / Enter on the card: handleCardClick
CardClick ==
  /\ ~pickerOpen
  /\ IF unlocked THEN OpenPicker
                 ELSE isOpen' = TRUE /\ UNCHANGED pickerOpen
  /\ UNCHANGED <<code, unlocked, isDragging, timers>>
  /\ UNCHANGED <<appVars, loaderVars, sizeVars, resultVars>>

\* onDragEnter / onDragOver
DragOver ==
  /\ ~pickerOpen
  /\ isDragging' = TRUE
  /\ UNCHANGED <<isOpen, code, unlocked, pickerOpen, timers>>
  /\ UNCHANGED <<appVars, loaderVars, sizeVars, resultVars>>

\* onDragLeave
DragLeave ==
  /\ ~pickerOpen
  /\ isDragging' = FALSE
  /\ UNCHANGED <<isOpen, code, unlocked, pickerOpen, timers>>
  /\ UNCHANGED <<appVars, loaderVars, sizeVars, resultVars>>

\* onDrop; hasFile: the drop carries a file
Drop(hasFile) ==
  /\ ~pickerOpen
  /\ isDragging' = FALSE
  /\ UNCHANGED <<code, unlocked, pickerOpen, timers>>
  /\ IF ~hasFile
       THEN UNCHANGED <<isOpen, appVars, loaderVars>>
       ELSE IF ~unlocked
       THEN isOpen' = TRUE /\ UNCHANGED <<appVars, loaderVars>>
       ELSE AppHandleFile /\ UNCHANGED isOpen
  /\ UNCHANGED <<sizeVars, resultVars>>

\* the dialog's backdrop, its Close button, or Escape in the code field
CloseDialog ==
  /\ ~pickerOpen
  /\ isOpen
  /\ isOpen' = FALSE
  /\ UNCHANGED <<code, unlocked, isDragging, pickerOpen, timers>>
  /\ UNCHANGED <<appVars, loaderVars, sizeVars, resultVars>>

\* onChange of the code field, which the open dialog holds
ChangeCode(raw) ==
  /\ ~pickerOpen
  /\ isOpen
  /\ code' = Sanitize(raw)
  /\ UNCHANGED <<isOpen, unlocked, isDragging, pickerOpen, timers>>
  /\ UNCHANGED <<appVars, loaderVars, sizeVars, resultVars>>

\* submit: Continue, or Enter in the code field
Submit ==
  /\ ~pickerOpen
  /\ isOpen
  /\ IF ~isValidFormat(code)
       THEN UNCHANGED <<unlocked, isOpen, accessCode, timers>>
       ELSE /\ timers < MaxTimers
            /\ unlocked' = TRUE
            /\ isOpen' = FALSE
            /\ accessCode' = code
            /\ timers' = timers + 1
  /\ UNCHANGED <<code, isDragging, pickerOpen>>
  /\ UNCHANGED <<loading, result, error, requests, nextReq, lastStarted,
                 lastOutcome, overlapped>>
  /\ UNCHANGED <<loaderVars, sizeVars, resultVars>>

\* lock: the Lock button, rendered while unlocked
Lock ==
  /\ ~pickerOpen
  /\ unlocked
  /\ unlocked' = FALSE
  /\ code' = <<>>
  /\ accessCode' = <<>>
  /\ UNCHANGED <<isOpen, isDragging, pickerOpen, timers>>
  /\ UNCHANGED <<loading, result, error, requests, nextReq, lastStarted,
                 lastOutcome, overlapped>>
  /\ UNCHANGED <<loaderVars, sizeVars, resultVars>>

\* the callback of setTimeout(openPicker, 50) runs
TimerFires ==
  /\ timers > 0
  /\ timers' = timers - 1
  /\ OpenPicker
  /\ UNCHANGED <<code, unlocked, isDragging>>
  /\ UNCHANGED <<appVars, loaderVars, sizeVars, resultVars>>

\* the user picks a file in the chooser: onChange of the file input
PickFile ==
  /\ pickerOpen
  /\ pickerOpen' = FALSE
  /\ AppHandleFile
  /\ UNCHANGED <<isOpen, code, unlocked, isDragging, timers>>
  /\ UNCHANGED <<sizeVars, resultVars>>

\* the user dismisses the chooser
CancelPicker ==
  /\ pickerOpen
  /\ pickerOpen' = FALSE
  /\ UNCHANGED <<isOpen, code, unlocked, isDragging, timers>>
  /\ UNCHANGED <<appVars, loaderVars, sizeVars, resultVars>>

\* the response of request r arrives: setResult(data), then finally
Resolve(r) ==
  /\ r \in requests
  /\ requests' = requests \ {r}
  /\ result' = <<"data", r.id>>
  /\ loading' = FALSE
  /\ lastOutcome' = "success"
  /\ RenderLoader(FALSE)
  /\ UNCHANGED <<error, accessCode, nextReq, lastStarted, overlapped>>
  /\ UNCHANGED <<cardVars, sizeVars, resultVars>>

\* request r fails with error body e: setError(...), then finally
Reject(r, e) ==
  /\ r \in requests
  /\ requests' = requests \ {r}
  /\ error' = <<ErrorMessage(e), r.id>>
  /\ loading' = FALSE
  /\ lastOutcome' = "failure"
  /\ RenderLoader(FALSE)
  /\ UNCHANGED <<result, accessCode, nextReq, lastStarted, overlapped>>
  /\ UNCHANGED <<cardVars, sizeVars, resultVars>>

CardInit ==
  /\ LoaderUnmounted
  /\ SizeIdle
  /\ CardInitial
  /\ AppInitial
  /\ ResultInitial

CardNext ==
  \/ CardClick
  \/ DragOver
  \/ DragLeave
  \/ \E hasFile \in BOOLEAN : Drop(hasFile)
  \/ CloseDialog
  \/ \E raw \in RawInputs : ChangeCode(raw)
  \/ Submit
  \/ Lock
  \/ TimerFires
  \/ PickFile
  \/ CancelPicker
  \/ \E r \in requests : Resolve(r)
  \/ \E r \in requests, e \in ServerErrors : Reject(r, e)

CardSpec == CardInit /\ [][CardNext]_vars

\* the page once a code was submitted and its picker dismissed: the card
\* is unlocked and App holds the code
AppInit ==
  /\ LoaderUnmounted
  /\ SizeIdle
  /\ ResultInitial
  /\ isOpen = FALSE
  /\ code = <<"1", "1", "1", "1", "1">>
  /\ unlocked = TRUE
  /\ isDragging = FALSE
  /\ pickerOpen = FALSE
  /\ timers = 0
  /\ loading = FALSE
  /\ result = Null
  /\ error = Null
  /\ accessCode = code
  /\ requests = {}
  /\ nextReq = 1
  /\ lastStarted = 0
  /\ lastOutcome = "none"
  /\ overlapped = FALSE

\* uploads from the unlocked card, their responses, and the Loader's
\* animation frames while App shows it
AppNext ==
  \/ CardClick
  \/ PickFile
  \/ CancelPicker
  \/ \E r \in requests : Resolve(r)
  \/ \E r \in requests, e \in ServerErrors : Reject(r, e)
  \/ Tick
  \/ Advance

AppSpec == AppInit /\ [][AppNext]_vars

TypeOK ==
  /\ mounted \in BOOLEAN
  /\ estMs \in EstSet
  /\ done \in BOOLEAN
  /\ rafRef \in 0..MaxHandle
  /\ nextHandle \in 1..(MaxHandle + 1)
  /\ perfNow \in 0..MaxNowMs
  /\ lastFrameTs \in 0..MaxNowMs
  /\ runId \in 0..MaxRuns
  /\ lastTick \in Branches
  /\ prevTick \in Branches

(* ------------------------------- claims -------------------------------- *)

\* a step in which the pending callback cb ran (it left the queue without a
\* restart or an unmount having cancelled it)
TickRan(cb) ==
  /\ cb \in rafQueue
  /\ cb \notin rafQueue'
  /\ runId' = runId
  /\ mounted' = mounted

\* C1: while the Loader is mounted, the fraction is 1 exactly when a tick of
\* the current run has observed done = true.
C1_OneIffObservedDone ==
  mounted => (progress = One <=> lastTick = "completed")

C1_Witness ==
  mounted /\ progress = One /\ lastTick = "completed" /\ prevTick = "easing"

\* C2: under fair frame delivery, whenever the Loader is mounted with done
\* true, the fraction becomes 1 unless done is withdrawn or the Loader is
\* unmounted first; and once 1 it stays 1 for the rest of that run.
C2_EventuallyOne ==
  /\ (mounted /\ done) ~> (progress = One \/ ~mounted \/ ~done)
  /\ [][ (mounted /\ done /\ progress = One /\ mounted' /\ runId' = runId)
          => progress' = One ]_vars

\* done arrived after the previous run had stalled at the 0.95 ceiling
C2_Witness ==
  mounted /\ done /\ prevTick = "stalled" /\ progress = One

\* C3 (as stated): with estMs fixed and the Loader mounted, the fraction never
\* decreases from one state to the next, the step on which done turns true
\* included, and it becomes 1 only by a tick that observes done.
C3_NonDecreasingAcrossDone ==
  [][ (mounted /\ mounted' /\ estMs' = estMs /\ (done => done'))
        => /\ RLe(progress, progress')
           /\ (progress # One /\ progress' = One => lastTick' = "completed")
    ]_vars

\* C4: within one run with done = false, every step leaves the fraction
\* non-decreasing and at most 0.95.
C4_MonotoneBelowCeiling ==
  [][ (mounted /\ mounted' /\ ~done /\ ~done' /\ runId' = runId)
        => (RLe(progress, progress') /\ RLe(progress', P95)) ]_vars

\* a tick of the slow phase (t >= 0.6) has produced a positive fraction
C4_Witness ==
  mounted /\ ~done /\ lastTick = "easing" /\ RLe(P60, lastT)
    /\ RLt(Zero, progress) /\ RLt(progress, P95)

\* C5: after a tick with t >= 1 and done = false the fraction is exactly 0.95,
\* and the run stays in that condition until it is restarted or unmounted.
C5_StallHolds ==
  [][ /\ (mounted' /\ lastTick' = "stalled") => progress' = P95
      /\ (mounted /\ lastTick = "stalled" /\ mounted' /\ runId' = runId)
           => lastTick' = "stalled"
    ]_vars

\* time has moved on after the stalling tick
C5_Witness ==
  mounted /\ ~done /\ lastTick = "stalled" /\ lastT = One
    /\ lastFrameTs < perfNow /\ progress = P95

\* C6: a tick whose closure holds done = true leaves the fraction at 1,
\* whatever t it computed.
C6_DoneTickSnaps ==
  [][ \A cb \in rafQueue : (cb.done /\ TickRan(cb)) => progress' = One ]_vars

\* the completing tick computed a t strictly inside the fast phase
C6_Witness ==
  mounted /\ lastTick = "completed" /\ RLt(Zero, lastT) /\ RLt(lastT, P60)
    /\ progress = One

\* C7: a restart caused by a change of estMs resets the fraction to 0 and
\* startRef to the time of the restart, and every tick computes t from the
\* current startRef and the current estMs.
C7_RestartResets ==
  [][ /\ (mounted /\ mounted' /\ estMs' # estMs)
           => /\ progress' = Zero
              /\ startRef' = perfNow'
              /\ \A cb \in rafQueue' : cb.estMs = estMs'
      /\ (mounted' /\ lastTick' # "none")
           => lastT' = TickT(lastFrameTs' - startRef', estMs')
    ]_vars

\* a run with done = false superseded another such run that had ticked, and
\* has itself ticked at a positive t
C7_Witness ==
  mounted /\ ~done /\ prevTick = "easing" /\ lastTick = "easing"
    /\ RLt(Zero, lastT) /\ startRef > 0

\* C8: the fraction always lies in [0, 1].
C8_FractionInUnitInterval ==
  RLe(Zero, progress) /\ RLe(progress, One)

\* a tick ran with a frame timestamp earlier than startRef
C8_Witness ==
  mounted /\ lastTick = "easing" /\ lastFrameTs < startRef /\ progress = Zero

\* C9: every pending callback belongs to the current run of a mounted
\* Loader, so no callback of a superseded run can ever execute.
C9_NoStaleTick ==
  \A cb \in rafQueue :
    mounted /\ cb.run = runId /\ cb.estMs = estMs /\ cb.done = done

\* the Loader was unmounted while the first tick of its run was still pending
C9_Witness ==
  ~mounted /\ runId > 0 /\ lastTick = "none" /\ rafRef # 0 /\ rafQueue = {}

\* C10: at most one animation-frame callback is pending.
C10_AtMostOnePending ==
  Cardinality(rafQueue) <= 1

\* a restart happened while the superseded run had a tick pending
C10_Witness ==
  mounted /\ prevTick = "easing" /\ lastTick = "none"
    /\ Cardinality(rafQueue) = 1

\* preconditions of the size claims, in the claims' own terms
InvalidSize(x) ==
  x.t \in {"NaN", "Infinity", "-Infinity", "null", "undefined", "string"} \/ x.v <= 0

ValidSize(x) == x.t = "number" /\ x.v > 0

\* the wide byte count w stands for the integer n (n below 2^31)
WideIs(w, n) ==
  w # Null /\ w[2] \in 0..1048575 /\ w[1] \in 0..2047 /\ w[1] * 1048576 + w[2] = n

\* the wide byte count w stands for n * 1024
WideIsTimes1024(w, n) ==
  /\ w # Null
  /\ w[2] \in 0..1048575
  /\ w[2] % 1024 = 0
  /\ w[1] * 1024 + w[2] \div 1024 = n

\* C11: estimate never fails: for every rawSize that is non-finite, zero,
\* negative or absent (null, undefined, not a number) it returns exactly
\* 2500 ms.
C11_InvalidSizeDefaults ==
  ("estimateMsFromBytes" \in called /\ InvalidSize(fileSizeBytes))
    => estimated = <<2500, 1>>

C11_Witness ==
  /\ "estimateMsFromBytes" \in called
  /\ fileSizeBytes = NonNumber("NaN")
  /\ estimated = <<2500, 1>>

\* C12: for every valid rawSize the estimate is at least 300 ms when the
\* normalised size is below 0.3 MB, at least 5000 ms otherwise, and never
\* more than 6 h = 21,600,000 ms.
C12_EstimateClamped ==
  ("estimateMsFromBytes" \in called /\ ValidSize(fileSizeBytes)) =>
    LET w       == normalizeBytes(fileSizeBytes)
        below03 == w[1] = 0 /\ w[2] * 10 < 3 * 1048576
    IN  /\ RLe(estimated, <<21600000, 1>>)
        /\ below03 => RLe(<<300, 1>>, estimated)
        /\ ~below03 => RLe(<<5000, 1>>, estimated)

C12_Witness ==
  /\ "estimateMsFromBytes" \in called
  /\ fileSizeBytes = Num(1073741824)
  /\ estimated = <<21600000, 1>>

\* C13: end to end, for rawSize = 3 * 1024 * 1024 = 3145728 the estimate is
\* about 24.1 s (between 24.0 s and 24.2 s) and the label made from it is
\* "~24s".
C13_ThreeMegabytes ==
  ("etaLabel" \in called /\ fileSizeBytes = Num(3 * 1024 * 1024)) =>
    /\ RLe(<<24000, 1>>, estimated)
    /\ RLe(estimated, <<24200, 1>>)
    /\ etaLabel = "~24s"

\* C14: normalize returns null exactly when rawSize is not a finite number
\* or is <= 0; for every finite rawSize > 0 it returns a positive number.
C14_NullIffInvalid ==
  "normalizeBytes" \in called =>
    /\ (bytesOut = Null) <=> InvalidSize(fileSizeBytes)
    /\ ValidSize(fileSizeBytes) =>
         (bytesOut[1] >= 0 /\ bytesOut[2] >= 0 /\ bytesOut[1] + bytesOut[2] > 0)

C14_Witness ==
  "normalizeBytes" \in called /\ fileSizeBytes = Num(0) /\ bytesOut = Null

\* C15: for every finite rawSize > 0, normalize returns rawSize * 1024 when
\* 1000 <= rawSize < 50,000,000 and (rawSize is a multiple of 1024 or
\* rawSize > 10,000), and rawSize unchanged otherwise; normalize(500) is 500
\* and normalize(27000) is 27648000.
C15_KbHeuristic ==
  ("normalizeBytes" \in called /\ ValidSize(fileSizeBytes)) =>
    LET n == fileSizeBytes.v
    IN  /\ IF 1000 <= n /\ n < 50000000 /\ (n % 1024 = 0 \/ n > 10000)
             THEN WideIsTimes1024(bytesOut, n)
             ELSE WideIs(bytesOut, n)
        /\ n = 500 => WideIs(bytesOut, 500)
        /\ n = 27000 => WideIs(bytesOut, 27648000)

C15_Witness ==
  /\ "normalizeBytes" \in called
  /\ fileSizeBytes = Num(27000)
  /\ WideIs(bytesOut, 27648000)

\* n/d rounded to the nearest integer, halves up: the k with
\* k - 1/2 <= n/d < k + 1/2
RoundHalfUp(n, d) ==
  CHOOSE k \in {n \div d, n \div d + 1} :
    2 * k * d - d <= 2 * n /\ 2 * n < 2 * k * d + d

\* the label the stated rule gives for ms
RuleLabel(ms) ==
  LET sec == IMax(1, RoundHalfUp(ms[1], 1000 * ms[2]))
      min == RoundHalfUp(sec, 60)
      hrs == RoundHalfUp(min, 60)
  IN  IF sec < 60 THEN "~" \o ToString(sec) \o "s"
      ELSE IF min < 60 THEN "~" \o ToString(min) \o "m"
      ELSE "~" \o ToString(hrs) \o "h"

\* C16: format is total: for every ms >= 0, with s = max(1, round(ms/1000)),
\* it returns "~{s}s" if s < 60; otherwise with m = round(s/60) it returns
\* "~{m}m" if m < 60; otherwise "~{h}h" with h = round(m/60), round being
\* half-up; format(45000) is "~45s" and format(90000) is "~2m".
C16_FormatRule ==
  "formatEta" \in called =>
    /\ etaLabel = RuleLabel(msArg)
    /\ msArg = <<45000, 1>> => etaLabel = "~45s"
    /\ msArg = <<90000, 1>> => etaLabel = "~2m"

C16_Witness ==
  "formatEta" \in called /\ msArg = <<90000, 1>> /\ etaLabel = "~2m"

\* C17 as stated: format(3600000) is "~60m", a duration of exactly one hour
\* being rendered in minutes.
C17_OneHourInMinutes ==
  ("formatEta" \in called /\ msArg = <<3600000, 1>>) => etaLabel = "~60m"

\* C17 amended: format(3600000) is "~1h": 3600 s round to 60 minutes, 60 is
\* not below 60, so the hour branch renders round(60/60) = 1.
C17_OneHourInHours ==
  ("formatEta" \in called /\ msArg = <<3600000, 1>>) => etaLabel = "~1h"

C17_Witness ==
  "formatEta" \in called /\ msArg = <<3600000, 1>> /\ etaLabel = "~1h"

\* C18 (as stated): after a tick with t >= 1 and done = false a next tick is
\* pending.
C18_StalledKeepsTicking ==
  (mounted /\ lastTick = "stalled") => rafQueue # {}

\* C18 (amended): after a tick with t >= 1 and done = false no tick is
\* pending; the run idles at 0.95 until it is restarted or unmounted.
C18_StalledIdles ==
  (mounted /\ lastTick = "stalled") => (rafQueue = {} /\ progress = P95)

\* the stalled run has idled while time moved on by two grid steps
C18_Witness ==
  mounted /\ lastTick = "stalled" /\ rafQueue = {}
    /\ rafRef # 0 /\ lastFrameTs < perfNow

\* C19: after the tick that observed done = true no tick is pending and the
\* fraction is 1, and both stay so while estMs and done do not change and
\* the Loader stays mounted.
C19_CompletedIsTerminal ==
  [][ /\ (mounted' /\ lastTick' = "completed")
           => (rafQueue' = {} /\ progress' = One)
      /\ (mounted /\ lastTick = "completed" /\ mounted'
            /\ estMs' = estMs /\ done' = done)
           => lastTick' = "completed"
    ]_vars

\* the completed run has stayed completed while time moved on
C19_Witness ==
  mounted /\ done /\ lastTick = "completed" /\ rafQueue = {}
    /\ progress = One /\ lastFrameTs < perfNow

\* C20 as stated: normalize reinterprets every byte count in
\* [10,000, 50,000,000) as kilobytes: for every rawSize with
\* 10,000 <= rawSize < 50,000,000 it returns rawSize * 1024.
C20_KbFrom10000 ==
  ("normalizeBytes" \in called /\ fileSizeBytes.t = "number"
     /\ 10000 <= fileSizeBytes.v /\ fileSizeBytes.v < 50000000)
    => WideIsTimes1024(bytesOut, fileSizeBytes.v)

\* C20 amended: for every rawSize with 10,000 < rawSize < 50,000,000
\* normalize returns rawSize * 1024; rawSize = 10,000 itself is returned
\* unchanged.
C20_KbAbove10000 ==
  "normalizeBytes" \in called =>
    /\ (fileSizeBytes.t = "number" /\ 10000 < fileSizeBytes.v
          /\ fileSizeBytes.v < 50000000)
         => WideIsTimes1024(bytesOut, fileSizeBytes.v)
    /\ fileSizeBytes = Num(10000) => WideIs(bytesOut, 10000)

C20_Witness ==
  /\ "normalizeBytes" \in called
  /\ fileSizeBytes = Num(10001)
  /\ WideIsTimes1024(bytesOut, 10001)

\* C21: an input of about 100 KB (rawSize = 102400 bytes) gets a near-instant
\* estimate: estimate(102400) is below 5000 ms.
C21_HundredKilobytesInstant ==
  ("estimateMsFromBytes" \in called /\ fileSizeBytes = Num(100 * 1024))
    => RLt(estimated, <<5000, 1>>)

\* the labels with a number from 1 to 59 in seconds or minutes, or a number
\* of hours that is at least 1
LabelsInRange ==
  { "~" \o ToString(k) \o u : k \in 1..59, u \in {"s", "m"} }
    \cup { "~" \o ToString(k) \o "h" : k \in 1..MaxLabelHours }

\* C29: for every ms >= 0 the number shown by format is at least 1, and at
\* most 59 when the unit is seconds or minutes: format never returns "~0s",
\* "~60s", "~0m", "~60m" or "~0h".
C29_LabelNumberInRange ==
  "formatEta" \in called =>
    /\ etaLabel \in LabelsInRange
    /\ etaLabel \notin {"~0s", "~60s", "~0m", "~60m", "~0h"}

C29_Witness ==
  "formatEta" \in called /\ msArg = <<0, 1>> /\ etaLabel = "~1s"

\* C30: for every finite rawSize > 0, normalize returns a value >= rawSize
\* and never a value strictly between 10,000 and 1,048,576, so that
\* 0.3 <= mb < 1 does not occur in the estimator.
C30_NoSizeBetween10KAnd1M ==
  ValidSize(fileSizeBytes) =>
    /\ "normalizeBytes" \in called =>
         /\ \/ bytesOut[1] > fileSizeBytes.v \div 1048576
            \/ /\ bytesOut[1] = fileSizeBytes.v \div 1048576
               /\ bytesOut[2] >= fileSizeBytes.v % 1048576
         /\ bytesOut[1] = 0 => bytesOut[2] <= 10000
    /\ "estimateMsFromBytes" \in called =>
         LET mb == MbOf(normalizeBytes(fileSizeBytes))
         IN  ~(RLe(<<3, 10>>, mb) /\ RLt(mb, One))

C30_Witness ==
  /\ "normalizeBytes" \in called
  /\ "estimateMsFromBytes" \in called
  /\ fileSizeBytes = Num(1024)
  /\ bytesOut = <<1, 0>>

\* C23: after every render of AnalysisResult, whatever segment was clicked,
\* filter chosen or result given, activeIdx is the index of a segment of the
\* displayed list, or is 0 when that list is empty.
C23_ActiveIdxValid ==
  LET len == Len(segments(segmentsRaw, speakerFilter))
  IN  /\ memoLen = len
      /\ IF len = 0 THEN activeIdx = 0 ELSE activeIdx \in 0..(len - 1)

\* a filter left two segments of three, and the last of them is selected
C23_Witness ==
  /\ Len(segmentsRaw) = 3
  /\ speakerFilter.t = "number"
  /\ Len(segments(segmentsRaw, speakerFilter)) = 2
  /\ activeIdx = 1

\* C22: every step that forwards a file to onFile is taken while the card is
\* unlocked, and the request it starts carries a 5-digit access code.
C22_ForwardsOnlyWhileUnlocked ==
  [][nextReq' # nextReq => (unlocked /\ isValidFormat(accessCode))]_vars

\* C24: at most one analyzeAudio request is in flight at any time.
C24_AtMostOneInFlight == Cardinality(requests) <= 1

\* App shows the outcome of request n and of no other
ShowsOutcomeOf(n) ==
  \/ result # Null /\ result[2] = n /\ error = Null
  \/ error # Null /\ error[2] = n /\ result = Null

\* C25: loading is true exactly while a request is in flight, and once every
\* request has settled App shows the outcome of the most recently started
\* upload.
C25_LatestOutcomeShown ==
  /\ loading <=> requests # {}
  /\ (requests = {} /\ lastStarted # 0) => ShowsOutcomeOf(lastStarted)

\* C26: for an upload started while no other was in flight: in flight,
\* loading is true and result and error are null; after a failure error is a
\* non-empty message, result is null and loading is false; after a success
\* result is the response data, error is null and loading is false.
C26_SingleUpload ==
  (lastStarted # 0 /\ ~overlapped) =>
    IF requests # {}
      THEN loading /\ result = Null /\ error = Null
      ELSE /\ ~loading
           /\ lastOutcome \in {"success", "failure"}
           /\ lastOutcome = "success" =>
                result = <<"data", lastStarted>> /\ error = Null
           /\ lastOutcome = "failure" =>
                /\ error # Null
                /\ error[1] # ""
                /\ error[2] = lastStarted
                /\ result = Null

\* the second upload, started after the first had settled, failed with an
\* empty error body
C26_Witness ==
  /\ lastStarted = 2
  /\ ~overlapped
  /\ requests = {}
  /\ lastOutcome = "failure"
  /\ error = <<"Audio analysis failed", 2>>
  /\ result = Null
  /\ ~loading

\* C27: the code field holds at most 5 characters, all digits; unlocked
\* implies a code of exactly 5 digits and a closed dialog; App's accessCode
\* is the code when unlocked and the empty string when locked.
C27_CodeInvariant ==
  /\ Len(code) <= 5
  /\ \A i \in 1..Len(code) : IsDigit(code[i])
  /\ unlocked => (isValidFormat(code) /\ ~isOpen)
  /\ accessCode = IF unlocked THEN code ELSE <<>>

\* unlocked by a submit whose delayed picker has opened
C27_Witness ==
  /\ unlocked
  /\ pickerOpen
  /\ timers = 0
  /\ code = <<"1", "1", "1", "1", "1">>
  /\ accessCode = code

\* C28: the Loader is mounted exactly while App is loading; as App mounts
\* it, it runs with an estimate of 2500 ms and a done flag that is false; its
\* fraction never reaches 1 and never exceeds 0.95; while it stays mounted
\* the fraction never falls, and once at 0.95 it stays at 0.95; a tick at or
\* after the estimate leaves it at 0.95.
C28_LoaderAsMountedByApp ==
  [][/\ mounted' <=> loading'
     /\ mounted' => (estMs' = 2500 /\ ~done')
     /\ progress' # One
     /\ RLe(progress', P95)
     /\ (mounted' /\ lastTick' = "stalled") => progress' = P95
     /\ (mounted /\ mounted') =>
          /\ RLe(progress, progress')
          /\ progress = P95 => progress' = P95]_vars

\* App's Loader has stalled at 0.95 with the request still in flight, more
\* than the estimate after it was mounted
C28_Witness ==
  /\ loading
  /\ mounted
  /\ requests # {}
  /\ lastTick = "stalled"
  /\ progress = P95
  /\ lastFrameTs - startRef > estMs

====
